---- MODULE Spec2Model ----
\* Network monitor (network_monitor.py): the scheduled measurement cycle, the
\* windowed report query with its aggregation, the report cycle and the
\* orchestrating main loop.
\*
\* Units. Speeds and latency are fixed-point numbers in thousandths (1/1000 Mbps,
\* 1/1000 ms); a value rendered with two decimals is a number of hundredths.
\* Record age is the number of hours since the row was stored (NOW() - timestamp).
EXTENDS Integers, Sequences, FiniteSets

\* -------------------------------------------------------------------- bounds
\* Most check cycles / report cycles the scheduler triggers in one run.
MaxChecks == 2
MaxReports == 2
\* Most rows a store holds when the report query is examined on its own.
MaxWindow == 2
\* Hours that pass in one step of model time.
ElapseHours == 12

\* ------------------------------------------------------------ configuration
DOWNLOAD_THRESHOLD == 500 * 1000
UPLOAD_THRESHOLD == 300 * 1000
SUMMARY_INTERVAL_HOURS == 6
DAILY_REPORT_HOURS == 24
TICK_SECONDS == 1
BACKOFF_SECONDS == 60

\* Ages beyond every report window are indistinguishable: they are kept as this.
Expired == DAILY_REPORT_HOURS + 1

None == <<>>
Some(v) == <<v>>

\* --------------------------------------------------------- external inputs
\* Raw results of the speed-test provider: bits per second, ping in 1/1000 ms.
RawDownloads == {499996000, 500000000}
RawUploads == {50000000}
RawPings == {20000}
\* Raw body of the IP-lookup response: the address followed by a newline.
RawIpBodies == {<<"1.2.3.4", "\n">>}

\* Rows a store may hold when the report query is examined on its own.
WindowDownloads == {100000, 499996, 500000}
WindowUploads == {50000, 300000}
WindowLatencies == {20000}
WindowIps == {"1.2.3.4", "5.6.7.8"}

\* ------------------------------------------------------------------ logging
Event(level, src) == [level |-> level, src |-> src]

RECURSIVE Count(_, _)
Count(events, level) ==
    IF events = <<>> THEN 0
    ELSE (IF Head(events).level = level THEN 1 ELSE 0) + Count(Tail(events), level)

RECURSIVE CountFrom(_, _, _)
CountFrom(events, level, src) ==
    IF events = <<>> THEN 0
    ELSE (IF Head(events).level = level /\ Head(events).src = src THEN 1 ELSE 0)
         + CountFrom(Tail(events), level, src)

\* ------------------------------------------------------------- aggregation
RECURSIVE SeqSum(_)
SeqSum(s) == IF s = <<>> THEN 0 ELSE Head(s) + SeqSum(Tail(s))

RECURSIVE Reverse(_)
Reverse(s) == IF s = <<>> THEN <<>> ELSE Append(Reverse(Tail(s)), Head(s))

\* f"{num/den:.2f}": the quotient in hundredths, rounded to nearest, ties to even.
Fmt2_Truncate(num, den) == num \div (10 * den)
Fmt2(num, den) ==
    LET scaled == 10 * den
        q == num \div scaled
        r == num % scaled
    IN  IF 2 * r > scaled \/ (2 * r = scaled /\ q % 2 = 1) THEN q + 1 ELSE q

\* A rendered field: f"{value:.2f} <unit>", or the literal text "OK".
Display(num, den, unit) == [text |-> "number", hundredths |-> Fmt2(num, den), unit |-> unit]
OkDisplay == [text |-> "OK", hundredths |-> 0, unit |-> ""]

\* r['timestamp'].strftime('%Y-%m-%d %H:%M:%S')
Strftime(rec) == [stamp |-> rec.age]

IsSlowDownload(speed) == speed < DOWNLOAD_THRESHOLD

IsSlowUpload(speed) == speed < UPLOAD_THRESHOLD

IsIncident_Both(r) == IsSlowDownload(r.download_speed) /\ IsSlowUpload(r.upload_speed)
IsIncident(r) == IsSlowDownload(r.download_speed) \/ IsSlowUpload(r.upload_speed)

IncidentRow(r) ==
    << Strftime(r),
       IF IsSlowDownload(r.download_speed)
       THEN Display(r.download_speed, 1, "Mbps") ELSE OkDisplay,
       IF IsSlowUpload(r.upload_speed)
       THEN Display(r.upload_speed, 1, "Mbps") ELSE OkDisplay >>

RECURSIVE Incidents(_)
Incidents(results) ==
    IF results = <<>> THEN <<>>
    ELSE (IF IsIncident(Head(results)) THEN <<IncidentRow(Head(results))>> ELSE <<>>)
         \o Incidents(Tail(results))

Column(results, f) == [i \in 1..Len(results) |-> results[i][f]]

IpChanges_Listed(results) ==
    IF Len([i \in 1..Len(results) |-> results[i].ip_address]) > 1 THEN "Yes" ELSE "No"
IpChanges(results) ==
    IF Cardinality({results[i].ip_address : i \in 1..Len(results)}) > 1 THEN "Yes" ELSE "No"

Summary(results) ==
    LET download_speeds == Column(results, "download_speed")
        upload_speeds == Column(results, "upload_speed")
        latencies == Column(results, "latency")
    IN  [ avg_download |-> Display(SeqSum(download_speeds), Len(download_speeds), "Mbps"),
          avg_upload |-> Display(SeqSum(upload_speeds), Len(upload_speeds), "Mbps"),
          avg_latency |-> Display(SeqSum(latencies), Len(latencies), "ms"),
          ip_changes |-> IpChanges(results),
          slow_download |-> Len(SelectSeq(download_speeds, IsSlowDownload)),
          slow_upload |-> Len(SelectSeq(upload_speeds, IsSlowUpload)) ]

RawRow(r) == <<Strftime(r), r.download_speed, r.upload_speed, r.latency, r.ip_address>>

\* WHERE timestamp >= NOW() - interval hours ORDER BY timestamp DESC
InWindow(r, hours) == r.age <= hours
Window(rows, hours) ==
    LET Recent(r) == InWindow(r, hours) IN Reverse(SelectSeq(rows, Recent))

QueryOutcomes == {"ok", "connect_fail", "sql_fail"}

\* get_report_data(hours) against the rows of the store: what it fetched, what it
\* returns and what it logs.
QueryFailedReturn == None

GetReportData(hours, outcome, rows, schemav) ==
    IF outcome # "ok" \/ schemav # "table"
    THEN [ results |-> <<>>, ret |-> QueryFailedReturn, query |-> "failed",
           log |-> <<Event("ERROR", "get_report_data")>> ]
    ELSE LET results == Window(rows, hours)
         IN  IF results = <<>>
             THEN [ results |-> results, ret |-> None, query |-> "empty", log |-> <<>> ]
             ELSE [ results |-> results,
                    ret |-> Some([ summary |-> Summary(results),
                                   incidents |-> Incidents(results),
                                   raw_data |-> [i \in 1..Len(results) |-> RawRow(results[i])] ]),
                    query |-> "data",
                    log |-> <<>> ]

\* ------------------------------------------------------------------- state
VARIABLES
    pc,          \* where main() is: "start", "crashed", "initial_check", "poll",
                 \* "jobs", "except"; "imported" when main() is not running
    jobs,        \* triggers registered with the scheduler
    pending,     \* jobs the current run_pending() still has to run
    schema,      \* what exists in the store: "none", "database", "table"
    db,          \* rows of network_checks, in insertion order
    files,       \* report artifacts on disk
    log,         \* events logged by the latest operation
    cycle,       \* what the latest operation did
    checksRun,   \* check cycles run so far
    reportsRun,  \* report cycles run so far
    initCalls,   \* calls of init_db so far
    polled,      \* whether run_pending() has been called
    lastSleep    \* seconds of the latest time.sleep()

vars == << pc, jobs, pending, schema, db, files, log, cycle, checksRun, reportsRun,
           initCalls, polled, lastSleep >>

NoCycle ==
    [ op |-> "none", hours |-> 0, calls |-> <<>>, measured |-> <<>>, saveArgs |-> <<>>,
      save |-> "none", saved |-> 0, query |-> "none", results |-> <<>>, ret |-> None,
      built |-> {}, delivery |-> "none", raised |-> FALSE ]

AllJobs == {"check", "summary", "daily"}
ReportJobs == {"summary", "daily"}
JobHours(j) == IF j = "summary" THEN SUMMARY_INTERVAL_HOURS ELSE DAILY_REPORT_HOURS
ReportHours == {SUMMARY_INTERVAL_HOURS, DAILY_REPORT_HOURS}

\* ------------------------------------------------------------ measurement
SpeedOutcomes ==
    [ok : {TRUE}, download : RawDownloads, upload : RawUploads, ping : RawPings]
    \cup {[ok |-> FALSE, download |-> 0, upload |-> 0, ping |-> 0]}

IpOutcomes == [ok : {TRUE}, body : RawIpBodies] \cup {[ok |-> FALSE, body |-> <<>>]}

SaveOutcomes == {"ok", "connect_fail", "insert_fail"}

\* bits per second / 1_000_000, in thousandths of Mbps
Mbps(bits) == bits \div 1000

NotSpace(token) == token \notin {" ", "\n", "\t", "\r"}
Strip(body) ==
    LET kept == SelectSeq(body, NotSpace) IN IF kept = <<>> THEN "" ELSE kept[1]

PerformSpeedTest_Silent(outcome) ==
    IF outcome.ok
    THEN [ download |-> Some(Mbps(outcome.download)), upload |-> Some(Mbps(outcome.upload)),
           latency |-> Some(outcome.ping), log |-> <<>> ]
    ELSE [ download |-> None, upload |-> None, latency |-> None, log |-> <<>> ]
PerformSpeedTest(outcome) ==
    IF outcome.ok
    THEN [ download |-> Some(Mbps(outcome.download)), upload |-> Some(Mbps(outcome.upload)),
           latency |-> Some(outcome.ping), log |-> <<>> ]
    ELSE [ download |-> None, upload |-> None, latency |-> None,
           log |-> <<Event("ERROR", "perform_speed_test")>> ]

GetPublicIp(outcome) ==
    IF outcome.ok
    THEN [ ip |-> Some(Strip(outcome.body)), log |-> <<>> ]
    ELSE [ ip |-> None, log |-> <<Event("ERROR", "get_public_ip")>> ]

NewRow(rows, download_speed, upload_speed, latency, ip_address) ==
    [ id |-> Len(rows) + 1, age |-> 0, download_speed |-> download_speed,
      upload_speed |-> upload_speed, latency |-> latency, ip_address |-> ip_address ]

SaveCheckResults_Twice(download_speed, upload_speed, latency, ip_address, outcome, rows, schemav) ==
    IF outcome = "ok" /\ schemav = "table"
    THEN LET once == Append(rows, NewRow(rows, download_speed, upload_speed, latency, ip_address))
         IN  [ rows |-> Append(once, NewRow(once, download_speed, upload_speed, latency, ip_address)),
               log |-> <<Event("INFO", "save_check_results")>> ]
    ELSE [ rows |-> rows, log |-> <<Event("ERROR", "save_check_results")>> ]
SaveCheckResults(download_speed, upload_speed, latency, ip_address, outcome, rows, schemav) ==
    IF outcome = "ok" /\ schemav = "table"
    THEN [ rows |-> Append(rows, NewRow(rows, download_speed, upload_speed, latency, ip_address)),
           log |-> <<Event("INFO", "save_check_results")>> ]
    ELSE [ rows |-> rows, log |-> <<Event("ERROR", "save_check_results")>> ]

AllPresent(values) == \A i \in 1..Len(values) : values[i] # None

\* Line 386: get_public_ip() is called whatever perform_speed_test() returned `st`.
IpLookup_UnlessSpeedFailed(st, ip) ==
    IF st.download = None
    THEN [ ip |-> None, log |-> <<>>, calls |-> <<>> ]
    ELSE [ ip |-> GetPublicIp(ip).ip, log |-> GetPublicIp(ip).log,
           calls |-> <<"get_public_ip">> ]
IpLookup(st, ip) ==
    [ ip |-> GetPublicIp(ip).ip, log |-> GetPublicIp(ip).log, calls |-> <<"get_public_ip">> ]

\* perform_network_check(): both measurements, then the save when all four values
\* are present.
PerformNetworkCheck(speed, ip, save, rows, schemav) ==
    LET st == PerformSpeedTest(speed)
        pub == IpLookup(st, ip)
        measured == <<st.download, st.upload, st.latency, pub.ip>>
    IN  IF AllPresent(measured)
        THEN LET sv == SaveCheckResults(st.download[1], st.upload[1], st.latency[1],
                                        pub.ip[1], save, rows, schemav)
             IN  [ rows |-> sv.rows,
                   log |-> st.log \o pub.log \o sv.log
                           \o <<Event("INFO", "perform_network_check")>>,
                   obs |-> [ NoCycle EXCEPT
                       !.op = "check",
                       !.calls = <<"perform_speed_test">> \o pub.calls
                                 \o <<"save_check_results">>,
                       !.measured = measured,
                       !.saveArgs = <<st.download[1], st.upload[1], st.latency[1], pub.ip[1]>>,
                       !.save = save,
                       !.saved = Len(sv.rows) - Len(rows) ] ]
        ELSE [ rows |-> rows,
               log |-> st.log \o pub.log \o <<Event("ERROR", "perform_network_check")>>,
               obs |-> [ NoCycle EXCEPT
                   !.op = "check",
                   !.calls = <<"perform_speed_test">> \o pub.calls,
                   !.measured = measured ] ]

\* ------------------------------------------------------------ report cycle
PdfName(hours) == <<"network_report", hours, "pdf">>
CsvName(hours) == <<"network_data", hours, "csv">>

DeliveryOutcomes == {"ok", "connect_fail", "starttls_fail", "login_fail", "send_fail"}

\* The calls made on the transport: smtplib.SMTP(...), starttls, login, send_message,
\* up to and including the one that raises.
TransportCalls(delivery) ==
    IF delivery = "connect_fail" THEN <<"SMTP">>
    ELSE IF delivery = "starttls_fail" THEN <<"SMTP", "starttls">>
    ELSE IF delivery = "login_fail" THEN <<"SMTP", "starttls", "login">>
    ELSE <<"SMTP", "starttls", "login", "send_message">>

\* What the report cycle does once delivery has raised: the except clause.
DeliveryFailed_Reraise(hours, onDisk) ==
    [ files |-> onDisk,
      calls |-> <<>>,
      log |-> <<Event("ERROR", "send_email_report")>>,
      raised |-> TRUE ]
DeliveryFailed(hours, onDisk) ==
    [ files |-> onDisk,
      calls |-> <<>>,
      log |-> <<Event("ERROR", "send_email_report")>>,
      raised |-> FALSE ]

\* What the report cycle does after send_message returned: log, then remove both files.
DeliverySucceeded(hours, onDisk) ==
    [ files |-> (onDisk \ {PdfName(hours)}) \ {CsvName(hours)},
      calls |-> <<"remove", "remove">>,
      log |-> <<Event("INFO", "send_email_report")>>,
      raised |-> FALSE ]

\* What the report cycle does when get_report_data returned nothing.
NoData_Deliver(hours, onDisk) ==
    [ files |-> onDisk,
      calls |-> <<"SMTP">>,
      log |-> <<Event("WARNING", "send_email_report")>>,
      raised |-> FALSE ]
NoData(hours, onDisk) ==
    [ files |-> onDisk,
      calls |-> <<>>,
      log |-> <<Event("WARNING", "send_email_report")>>,
      raised |-> FALSE ]

\* send_email_report(hours)
SendEmailReport(hours, outcome, delivery, rows, schemav, onDisk) ==
    LET data == GetReportData(hours, outcome, rows, schemav)
        obs == [ NoCycle EXCEPT !.op = "report", !.hours = hours, !.query = data.query,
                                !.results = data.results, !.ret = data.ret ]
    IN  IF data.ret = None
        THEN LET end == NoData(hours, onDisk)
             IN  [ files |-> end.files,
                   log |-> data.log \o end.log,
                   obs |-> [ obs EXCEPT !.calls = <<"get_report_data">> \o end.calls,
                                        !.raised = end.raised ] ]
        ELSE LET built == {PdfName(hours), CsvName(hours)}
                 end == IF delivery = "ok"
                        THEN DeliverySucceeded(hours, onDisk \cup built)
                        ELSE DeliveryFailed(hours, onDisk \cup built)
             IN  [ files |-> end.files,
                   log |-> data.log \o end.log,
                   obs |-> [ obs EXCEPT
                       !.calls = <<"get_report_data", "generate_pdf_report", "generate_csv_report">>
                                 \o TransportCalls(delivery) \o end.calls,
                       !.built = built,
                       !.delivery = delivery,
                       !.raised = end.raised ] ]

\* ---------------------------------------------------------- initialization
InitOutcomes == {"ok", "connect_fail", "create_db_fail", "connect_db_fail", "create_table_fail"}

\* init_db(): create the database if it is missing, then the table; any failure
\* is logged and raised again.
InitDb(outcome, schemav) ==
    LET failure == <<Event("ERROR", "init_db")>>
        created == IF schemav = "none" THEN <<Event("INFO", "init_db")>> ELSE <<>>
        database == IF schemav = "none" THEN "database" ELSE schemav
    IN  IF outcome = "connect_fail" \/ (outcome = "create_db_fail" /\ schemav = "none")
        THEN [ schema |-> schemav, log |-> failure, raised |-> TRUE ]
        ELSE IF outcome \in {"connect_db_fail", "create_table_fail"}
        THEN [ schema |-> database, log |-> created \o failure, raised |-> TRUE ]
        ELSE [ schema |-> "table", log |-> created \o <<Event("INFO", "init_db")>>,
               raised |-> FALSE ]

\* ------------------------------------------------------------------ actions
Init ==
    /\ pc = "start"
    /\ jobs = {}
    /\ pending = {}
    /\ schema \in {"none", "database", "table"}
    /\ db = <<>>
    /\ files = {}
    /\ log = <<>>
    /\ cycle = NoCycle
    /\ checksRun = 0
    /\ reportsRun = 0
    /\ initCalls = 0
    /\ polled = FALSE
    /\ lastSleep = 0

\* The triggers registered once init_db() is over: none when it raised, since the
\* exception leaves main() before line 400.
JobsAfterInit_Always(raised, registered) == AllJobs
JobsAfterInit(raised, registered) == IF raised THEN registered ELSE AllJobs

\* main(), lines 396-402: init_db(), then the three triggers are registered. An
\* exception of init_db() leaves main().
MainInitDb ==
    /\ pc = "start"
    /\ \E outcome \in InitOutcomes :
         /\ outcome = "create_db_fail" => schema = "none"
         /\ LET r == InitDb(outcome, schema)
            IN  /\ schema' = r.schema
                /\ log' = r.log
                /\ cycle' = [NoCycle EXCEPT !.op = "init", !.raised = r.raised]
                /\ pc' = IF r.raised THEN "crashed" ELSE "initial_check"
                /\ jobs' = JobsAfterInit(r.raised, jobs)
    /\ initCalls' = initCalls + 1
    /\ UNCHANGED << pending, db, files, checksRun, reportsRun, polled, lastSleep >>

\* One perform_network_check(); an exception leaving it takes main() to `escaped`.
CheckCycle(next, escaped) ==
    \E speed \in SpeedOutcomes, ip \in IpOutcomes, save \in SaveOutcomes :
        LET r == PerformNetworkCheck(speed, ip, save, db, schema)
        IN  /\ db' = r.rows
            /\ log' = r.log
            /\ cycle' = r.obs
            /\ checksRun' = checksRun + 1
            /\ pc' = IF r.obs.raised THEN escaped ELSE next

\* main(), line 405: the check performed before the loop is entered.
MainInitialCheck_Skipped ==
    /\ pc = "initial_check"
    /\ pc' = "poll"
    /\ UNCHANGED << jobs, pending, schema, db, files, log, cycle, checksRun, reportsRun,
                    initCalls, polled, lastSleep >>
MainInitialCheck ==
    /\ pc = "initial_check"
    /\ CheckCycle("poll", "crashed")
    /\ UNCHANGED << jobs, pending, schema, files, reportsRun, initCalls, polled, lastSleep >>

\* schedule.run_pending(), line 410: the jobs that are due are collected. Which jobs
\* are due is decided by the clock, so any registered job may be.
Runnable(due) ==
    /\ "check" \in due => checksRun < MaxChecks
    /\ reportsRun + Cardinality(due \cap ReportJobs) <= MaxReports

RunPending ==
    /\ pc = "poll"
    /\ \E due \in SUBSET jobs :
         /\ Runnable(due)
         /\ pending' = due
    /\ pc' = "jobs"
    /\ polled' = TRUE
    /\ UNCHANGED << jobs, schema, db, files, log, cycle, checksRun, reportsRun, initCalls,
                    lastSleep >>

\* The check job of line 400, run by run_pending().
RunCheckJob ==
    /\ pc = "jobs"
    /\ "check" \in pending
    /\ CheckCycle("jobs", "except")
    /\ pending' = IF cycle'.raised THEN {} ELSE pending \ {"check"}
    /\ UNCHANGED << jobs, schema, files, reportsRun, initCalls, polled, lastSleep >>

\* A report job of lines 401-402, run by run_pending().
RunReportJob ==
    /\ pc = "jobs"
    /\ \E j \in pending \cap ReportJobs :
         /\ \E outcome \in QueryOutcomes, delivery \in DeliveryOutcomes :
              LET r == SendEmailReport(JobHours(j), outcome, delivery, db, schema, files)
              IN  /\ files' = r.files
                  /\ log' = r.log
                  /\ cycle' = r.obs
                  /\ pc' = IF r.obs.raised THEN "except" ELSE "jobs"
                  /\ pending' = IF r.obs.raised THEN {} ELSE pending \ {j}
    /\ reportsRun' = reportsRun + 1
    /\ UNCHANGED << jobs, schema, db, checksRun, initCalls, polled, lastSleep >>

\* Line 411: every due job has run; the loop sleeps one tick.
SleepTick ==
    /\ pc = "jobs"
    /\ pending = {}
    /\ lastSleep' = TICK_SECONDS
    /\ pc' = "poll"
    /\ UNCHANGED << jobs, pending, schema, db, files, log, cycle, checksRun, reportsRun,
                    initCalls, polled >>

\* An exception leaves run_pending() or time.sleep(1): control reaches line 412. The
\* jobs still pending are not run in this iteration.
IterationRaises ==
    /\ pc = "jobs"
    /\ pending' = {}
    /\ pc' = "except"
    /\ UNCHANGED << jobs, schema, db, files, log, cycle, checksRun, reportsRun, initCalls,
                    polled, lastSleep >>

\* Lines 412-414: the exception is logged, the loop sleeps and goes on.
AfterBackoff == "poll"

BackoffSleep_Tick == TICK_SECONDS
BackoffSleep == BACKOFF_SECONDS

Backoff ==
    /\ pc = "except"
    /\ log' = <<Event("ERROR", "main")>>
    /\ cycle' = [NoCycle EXCEPT !.op = "backoff"]
    /\ lastSleep' = BackoffSleep
    /\ pc' = AfterBackoff
    /\ UNCHANGED << jobs, pending, schema, db, files, checksRun, reportsRun, initCalls,
                    polled >>

\* Time passes: every stored row grows older.
Older(r) ==
    [r EXCEPT !.age = IF r.age + ElapseHours > DAILY_REPORT_HOURS
                      THEN Expired ELSE r.age + ElapseHours]

Elapse ==
    /\ pc \in {"poll", "imported"}
    /\ db' = [i \in 1..Len(db) |-> Older(db[i])]
    /\ db' # db
    /\ UNCHANGED << pc, jobs, pending, schema, files, log, cycle, checksRun, reportsRun,
                    initCalls, polled, lastSleep >>

Next ==
    \/ MainInitDb
    \/ MainInitialCheck
    \/ RunPending
    \/ RunCheckJob
    \/ RunReportJob
    \/ SleepTick
    \/ IterationRaises
    \/ Backoff
    \/ Elapse

Spec == Init /\ [][Next]_vars

\* ------------------------------------------- the report query on its own
WindowRows ==
    [ download_speed : WindowDownloads, upload_speed : WindowUploads,
      latency : WindowLatencies, ip_address : WindowIps ]

Numbered(rows) ==
    [ i \in 1..Len(rows) |->
        [ id |-> i, age |-> 0, download_speed |-> rows[i].download_speed,
          upload_speed |-> rows[i].upload_speed, latency |-> rows[i].latency,
          ip_address |-> rows[i].ip_address ] ]

InitWindow ==
    /\ pc = "imported"
    /\ jobs = {}
    /\ pending = {}
    /\ schema = "table"
    /\ \E n \in 0..MaxWindow : \E rows \in [1..n -> WindowRows] : db = Numbered(rows)
    /\ files = {}
    /\ log = <<>>
    /\ cycle = NoCycle
    /\ checksRun = 0
    /\ reportsRun = 0
    /\ initCalls = 0
    /\ polled = FALSE
    /\ lastSleep = 0

\* get_report_data(hours) called directly.
QueryReport ==
    /\ pc = "imported"
    /\ \E hours \in ReportHours, outcome \in QueryOutcomes :
         LET r == GetReportData(hours, outcome, db, schema)
         IN  /\ log' = r.log
             /\ cycle' = [ NoCycle EXCEPT !.op = "query", !.hours = hours, !.query = r.query,
                                          !.calls = <<"get_report_data">>,
                                          !.results = r.results, !.ret = r.ret ]
    /\ UNCHANGED << pc, jobs, pending, schema, db, files, checksRun, reportsRun, initCalls,
                    polled, lastSleep >>

NextWindow == QueryReport \/ Elapse

SpecWindow == InitWindow /\ [][NextWindow]_vars

\* ================================================================== claims
CountCalls(name) == Len(SelectSeq(cycle.calls, LAMBDA c : c = name))

Abs(n) == IF n < 0 THEN -n ELSE n

CheckComplete == cycle.op = "check" /\ AllPresent(cycle.measured)
CheckIncomplete == cycle.op = "check" /\ ~AllPresent(cycle.measured)

LastRowHolds(values) ==
    /\ db # <<>>
    /\ db[Len(db)].download_speed = values[1][1]
    /\ db[Len(db)].upload_speed = values[2][1]
    /\ db[Len(db)].latency = values[3][1]
    /\ db[Len(db)].ip_address = values[4][1]

\* C1 as stated: a check cycle with all four values present saves exactly one record
\* with those values and logs exactly one informational event and no error event,
\* also when save_check_results itself runs.
C1_OneRecordOneInfo ==
    CheckComplete =>
        /\ cycle.saved = 1
        /\ LastRowHolds(cycle.measured)
        /\ Count(log, "INFO") = 1
        /\ Count(log, "ERROR") = 0

\* C1 amended: a check cycle with all four values present calls save_check_results
\* exactly once with those values, and perform_network_check itself logs exactly one
\* informational event and no error event. When the save succeeds exactly one record
\* with those values is stored and save_check_results logs a second informational
\* event; when the save fails no record is stored and save_check_results logs one
\* error event.
C1_CompleteCheck ==
    CheckComplete =>
        /\ CountCalls("save_check_results") = 1
        /\ cycle.saveArgs = [i \in 1..4 |-> cycle.measured[i][1]]
        /\ CountFrom(log, "INFO", "perform_network_check") = 1
        /\ CountFrom(log, "ERROR", "perform_network_check") = 0
        /\ cycle.save = "ok" =>
              /\ cycle.saved = 1
              /\ LastRowHolds(cycle.measured)
              /\ Count(log, "INFO") = 2
              /\ Count(log, "ERROR") = 0
        /\ cycle.save # "ok" =>
              /\ cycle.saved = 0
              /\ Count(log, "INFO") = 1
              /\ Count(log, "ERROR") = 1

C1_Witness == CheckComplete /\ cycle.save = "ok" /\ cycle.saved = 1 /\ Len(db) = 2

\* C2 as stated: a check cycle with at least one value absent saves no record and logs
\* exactly one error event and no informational event, also when the absence comes
\* from perform_speed_test or get_public_ip failing inside the cycle.
C2_NoRecordOneError ==
    CheckIncomplete =>
        /\ cycle.saved = 0
        /\ Count(log, "ERROR") = 1
        /\ Count(log, "INFO") = 0

FailedSubCalls ==
    (IF cycle.measured[1] = None THEN 1 ELSE 0) + (IF cycle.measured[4] = None THEN 1 ELSE 0)

\* C2 amended: a check cycle in which perform_speed_test or get_public_ip fails saves
\* no record (save_check_results is not called), logs no informational event, and
\* perform_network_check itself logs exactly one error event; each failed sub-call has
\* logged one error event of its own, so the cycle logs one error event more than the
\* number of failed sub-calls.
C2_IncompleteCheck ==
    CheckIncomplete =>
        /\ cycle.saved = 0
        /\ CountCalls("save_check_results") = 0
        /\ Count(log, "INFO") = 0
        /\ CountFrom(log, "ERROR", "perform_network_check") = 1
        /\ Count(log, "ERROR") = 1 + FailedSubCalls
        /\ log[Len(log)] = Event("ERROR", "perform_network_check")

C2_Witness ==
    /\ CheckIncomplete
    /\ cycle.measured[1] = None
    /\ cycle.measured[4] # None
    /\ Count(log, "ERROR") = 2

\* C3: a report cycle that created the document and the export has removed both files
\* when it ends, whether delivery succeeded or failed.
C3_ArtifactsRemoved ==
    (cycle.op = "report" /\ cycle.built # {}) => files \cap cycle.built = {}

\* C4: the result get_report_data returns for a window with no records differs from
\* the result it returns when the query itself failed.
C4_EmptyDistinctFromFailed ==
    cycle.query = "empty" =>
        \A outcome \in QueryOutcomes \ {"ok"} :
            GetReportData(cycle.hours, outcome, db, schema).ret # cycle.ret

DeliveryRaised == cycle.op = "report" /\ cycle.delivery \notin {"none", "ok"}

\* C5: when the transport raises during delivery, the report cycle logs exactly one
\* error event, lets no exception out, and makes no second delivery attempt.
C5_DeliveryFailureAbsorbed ==
    DeliveryRaised =>
        /\ Count(log, "ERROR") = 1
        /\ ~cycle.raised
        /\ pc \in {"jobs", "poll", "except"}
        /\ CountCalls("SMTP") = 1
        /\ CountCalls("send_message") <= 1

C5_Witness ==
    /\ DeliveryRaised
    /\ cycle.delivery = "send_fail"
    /\ CountCalls("send_message") = 1
    /\ log = <<Event("ERROR", "send_email_report")>>

NoDataCycle == cycle.op = "report" /\ cycle.ret = None

\* C6: when get_report_data returns nothing, the report cycle logs exactly one warning,
\* builds neither the document nor the export, and makes no call on the transport.
C6_NoDataNoDelivery ==
    NoDataCycle =>
        /\ Count(log, "WARNING") = 1
        /\ cycle.built = {}
        /\ cycle.delivery = "none"
        /\ \A c \in {"generate_pdf_report", "generate_csv_report", "SMTP", "starttls",
                     "login", "send_message"} : CountCalls(c) = 0

C6_Witness ==
    /\ NoDataCycle
    /\ cycle.query = "empty"
    /\ cycle.calls = <<"get_report_data">>
    /\ log = <<Event("WARNING", "send_email_report")>>

Running == {"poll", "jobs", "except"}

\* C7: once the loop is running, an exception that escapes an iteration is caught and
\* logged as one error, the loop then sleeps the long backoff instead of the tick and
\* goes back to polling; no step takes main() out of the loop.
C7_LoopSurvives ==
    [][ /\ pc \in Running => pc' \in Running
        /\ (pc = "jobs" /\ pc' = "except") => UNCHANGED << db, files, jobs >>
        /\ pc = "except" =>
              /\ pc' = "poll"
              /\ log' = <<Event("ERROR", "main")>>
              /\ lastSleep' = BACKOFF_SECONDS
              /\ lastSleep' > TICK_SECONDS
              /\ jobs' = jobs ]_vars

C7_Witness ==
    /\ cycle.op = "backoff"
    /\ pc = "jobs"
    /\ polled
    /\ lastSleep = BACKOFF_SECONDS
    /\ pending # {}

\* C8: when init_db fails the exception leaves main(): init_db has been called once,
\* no trigger is registered, no check cycle and no report cycle has run, the loop has
\* not polled, and main() stays terminated.
C8_InitFailureFatal ==
    /\ [](pc = "crashed" =>
            /\ cycle.op = "init"
            /\ cycle.raised
            /\ initCalls = 1
            /\ jobs = {}
            /\ checksRun = 0
            /\ reportsRun = 0
            /\ ~polled
            /\ db = <<>>)
    /\ [][pc = "crashed" => pc' = "crashed"]_vars
    /\ [][pc' \in Running \cup {"initial_check"} => schema' = "table"]_vars

C8_Witness ==
    /\ pc = "crashed"
    /\ cycle.raised
    /\ schema = "database"
    /\ Count(log, "ERROR") = 1

Qualifies(r) ==
    r.download_speed < DOWNLOAD_THRESHOLD \/ r.upload_speed < UPLOAD_THRESHOLD

\* The field renders `value` with two decimals and the Mbps unit.
Renders(field, value) ==
    /\ field.text = "number"
    /\ field.unit = "Mbps"
    /\ 2 * Abs(10 * field.hundredths - value) <= 10

\* C9: for a non-empty window the incident list has exactly one row for each record
\* below either threshold, in window order, and none for a record meeting both; a
\* display field renders the speed when it is below its threshold and is "OK"
\* otherwise.
C9_Incidents ==
    cycle.query = "data" =>
        LET hits == SelectSeq(cycle.results, Qualifies)
            rows == cycle.ret[1].incidents
        IN  /\ Len(rows) = Len(hits)
            /\ \A i \in 1..Len(hits) :
                 /\ rows[i][1] = Strftime(hits[i])
                 /\ IF hits[i].download_speed < DOWNLOAD_THRESHOLD
                    THEN Renders(rows[i][2], hits[i].download_speed)
                    ELSE rows[i][2].text = "OK"
                 /\ IF hits[i].upload_speed < UPLOAD_THRESHOLD
                    THEN Renders(rows[i][3], hits[i].upload_speed)
                    ELSE rows[i][3].text = "OK"

C9_Witness ==
    /\ cycle.query = "data"
    /\ Len(cycle.results) = 2
    /\ ~Qualifies(cycle.results[1])
    /\ cycle.results[2].download_speed >= DOWNLOAD_THRESHOLD
    /\ cycle.results[2].upload_speed < UPLOAD_THRESHOLD
    /\ Len(cycle.ret[1].incidents) = 1
    /\ cycle.ret[1].incidents[1][2].text = "OK"

Downloads == [i \in 1..Len(cycle.results) |-> cycle.results[i].download_speed]

SlowDownloads ==
    Cardinality({i \in 1..Len(cycle.results) :
                   cycle.results[i].download_speed < DOWNLOAD_THRESHOLD})

\* C10 as stated: avg_download equals the mean of the download values, and
\* slow_download_count is the number of records strictly below DOWNLOAD_THRESHOLD.
C10_ExactMean ==
    cycle.query = "data" =>
        /\ 10 * cycle.ret[1].summary.avg_download.hundredths * Len(Downloads) = SeqSum(Downloads)
        /\ cycle.ret[1].summary.slow_download = SlowDownloads

\* C10 amended: avg_download is the mean of the download values rounded to two
\* decimal places (at most 0.005 Mbps from the mean), and slow_download_count is the
\* number of records strictly below DOWNLOAD_THRESHOLD, a record exactly at the
\* threshold not being counted.
C10_RoundedMean ==
    cycle.query = "data" =>
        /\ cycle.ret[1].summary.avg_download.unit = "Mbps"
        /\ 2 * Abs(10 * cycle.ret[1].summary.avg_download.hundredths * Len(Downloads)
                   - SeqSum(Downloads)) <= 10 * Len(Downloads)
        /\ cycle.ret[1].summary.slow_download = SlowDownloads

C10_Witness ==
    /\ cycle.query = "data"
    /\ Len(cycle.results) = 2
    /\ cycle.results[1].download_speed = DOWNLOAD_THRESHOLD
    /\ cycle.results[2].download_speed = 100000
    /\ cycle.ret[1].summary.slow_download = 1
    /\ cycle.ret[1].summary.avg_download.hundredths = 30000

\* C11: for a non-empty window the IP-change flag of the summary is "Yes" exactly when
\* two records of the window carry different addresses, and it is the same for the
\* window read in the opposite order.
C11_IpChangeFlag ==
    cycle.query = "data" =>
        LET flag == cycle.ret[1].summary.ip_changes
            differ == \E i, j \in 1..Len(cycle.results) :
                         cycle.results[i].ip_address # cycle.results[j].ip_address
            backwards == GetReportData(cycle.hours, "ok", Reverse(cycle.results), "table")
        IN  /\ flag \in {"Yes", "No"}
            /\ flag = "Yes" <=> differ
            /\ backwards.ret[1].summary.ip_changes = flag

C11_Witness ==
    /\ cycle.query = "data"
    /\ Len(cycle.results) = 2
    /\ cycle.results[1].ip_address = "5.6.7.8"
    /\ cycle.results[2].ip_address = "1.2.3.4"
    /\ cycle.ret[1].summary.ip_changes = "Yes"

\* C12: one check cycle, and only one, has run when the loop polls for the first time;
\* it runs after init_db has succeeded and the triggers are registered, whichever
\* jobs the clock makes due, and none runs before initialization is over.
C12_InitialCheckOnce ==
    /\ pc \in {"start", "initial_check", "crashed"} => checksRun = 0 /\ ~polled
    /\ (pc = "poll" /\ ~polled) =>
          /\ checksRun = 1
          /\ cycle.op = "check"
          /\ initCalls = 1
          /\ schema = "table"
          /\ jobs = AllJobs
          /\ reportsRun = 0
    /\ polled => checksRun >= 1

C12_Witness ==
    /\ pc = "poll"
    /\ ~polled
    /\ checksRun = 1
    /\ cycle.op = "check"
    /\ cycle.saved = 1
    /\ Len(db) = 1

\* C13: every check cycle calls perform_speed_test and then get_public_ip, once each,
\* whether or not the other one fails; a failed call logs its own error, and no
\* exception leaves the check cycle.
C13_BothAttempted ==
    cycle.op = "check" =>
        /\ CountCalls("perform_speed_test") = 1
        /\ CountCalls("get_public_ip") = 1
        /\ Len(cycle.calls) >= 2
        /\ cycle.calls[1] = "perform_speed_test"
        /\ cycle.calls[2] = "get_public_ip"
        /\ CountFrom(log, "ERROR", "perform_speed_test")
             = (IF cycle.measured[1] = None THEN 1 ELSE 0)
        /\ CountFrom(log, "ERROR", "get_public_ip")
             = (IF cycle.measured[4] = None THEN 1 ELSE 0)
        /\ ~cycle.raised
        /\ pc \in Running

C13_Witness ==
    /\ cycle.op = "check"
    /\ cycle.measured = <<None, None, None, None>>
    /\ cycle.calls = <<"perform_speed_test", "get_public_ip">>
    /\ Count(log, "ERROR") = 3
    /\ pc = "jobs"

====
